---------------------------- MODULE Spec2Model ----------------------------
(***************************************************************************)
(* Model of the post-retrieval logic of the timebase backend:              *)
(*   - GetDataResponse::time_series  (src/backend/src/main.rs:117-162)     *)
(*     builds one DataSeries per TagItem and classifies the quality code;  *)
(*   - DataSeries::get_value_at      (src/backend/src/timeseries.rs:59-81) *)
(*     the binary-search point lookup;                                     *)
(*   - the alignment sweep of main   (src/backend/src/main.rs:63-93)       *)
(*     flatten, sort by timestamp, forward-fill into data_table.           *)
(*                                                                         *)
(* Timestamps (DateTime<Utc>) are integers.  Option<T> is <<"None">> or    *)
(* <<"Some", v>>; an enum variant is the tuple <<variant name, payload>>.  *)
(* Vec indices are 0-based in the code and 1-based in a TLA+ sequence:     *)
(* data[i] of the code is data[i + 1] here.                                *)
(***************************************************************************)
EXTENDS Integers, Sequences, FiniteSets, TLC

VARIABLES
    pc,              \* position in the program
    code,            \* TagData.quality under classification (i16)
    quality,         \* the DataQuality computed from code
    response,        \* GetDataResponse.tags: Vec<TagItem>
    time_series,     \* Vec<DataSeries> = response.time_series()
    test_timestamp,  \* the argument of get_value_at
    test_value,      \* the result of get_value_at
    start_time,      \* main's start_time
    dp,              \* main's flattened Vec<(&Tag, &DataPoint)>
    pos,             \* 1-based position of dp.iter() in the sweep
    timestamp,       \* main's `timestamp` (the pending timestamp)
    last_values,     \* HashMap<String, Option<DataValue>>
    order,           \* iteration order of last_values.values()
    data_table       \* Vec<(DateTime<Utc>, Vec<Option<DataValue>>)>

vars == <<pc, code, quality, response, time_series, test_timestamp, test_value,
          start_time, dp, pos, timestamp, last_values, order, data_table>>

-----------------------------------------------------------------------------
(* Bounds of the model *)

\* Timestamps of the alignment and construction inputs range over 0..MaxTime.
MaxTime == 2

\* Timestamps of the lookup input range over 0..LookupMaxTime.
LookupMaxTime == 4

\* Greatest number of raw records of the TagItem given to time_series.
BuildMaxLen == 2

-----------------------------------------------------------------------------
(* Program constants *)

I16Min == -32768
I16Max == 32767
I16 == I16Min..I16Max

\* 0xC0
QualityMask == 192

\* two's-complement width of i16
I16Modulus == 65536

-----------------------------------------------------------------------------
(* Data model *)

None == <<"None">>
Some(v) == <<"Some", v>>

\* timebase::TagValue and timeseries::DataValue variants
Integer(n) == <<"Integer", n>>
Float(x) == <<"Float", x>>
Text(s) == <<"Text", s>>

\* timeseries::DataQuality variants, each carrying the raw code
Good(n) == <<"Good", n>>
Bad(n) == <<"Bad", n>>
Unknown(n) == <<"Unknown", n>>

\* timebase::TagData
TagData(t, v, q) == [timestamp |-> t, value |-> v, quality |-> q]

\* timebase::TagItem (the tag's name is the only metadata the sweep reads)
TagItem(n, d) == [tag |-> [name |-> n], data |-> d]

-----------------------------------------------------------------------------
(* Quality classification, main.rs:153-156 *)

RECURSIVE BitAndBits(_, _, _)
BitAndBits(x, y, bits) ==
    IF bits = 0 THEN 0
    ELSE ((x % 2) * (y % 2)) + 2 * BitAndBits(x \div 2, y \div 2, bits - 1)

\* `a & b` on i16: bitwise and of the two's-complement representations
BitAnd16(a, b) ==
    LET u == BitAndBits(a % I16Modulus, b % I16Modulus, 16)
    IN  IF u > I16Max THEN u - I16Modulus ELSE u

\* match dp.quality { n if n & 0xC0 >= 0 => Good(n), _ => Bad(dp.quality) }
\* (`&` binds tighter than `>=` in Rust)
Quality(n) ==
    IF BitAnd16(n, QualityMask) >= 0 THEN Good(n) ELSE Bad(n)

-----------------------------------------------------------------------------
(* Series construction, main.rs:117-162 *)

\* match &dp.value { Some(TagValue::X(v)) => Some(DataValue::X(v)), None => None }
DataValueOf(v) ==
    IF v = None THEN None
    ELSE LET tv == v[2]
         IN  CASE tv[1] = "Integer" -> Some(Integer(tv[2]))
               [] tv[1] = "Float" -> Some(Float(tv[2]))
               [] tv[1] = "Text" -> Some(Text(tv[2]))

\* DataPoint { timestamp, value, quality }
DataPointOf(d) ==
    [timestamp |-> d.timestamp,
     value |-> DataValueOf(d.value),
     quality |-> Quality(d.quality)]

\* DataSeries { tag, data: tl.data.iter().map(..).collect() }: arrival order kept
DataSeriesOf(tl) ==
    [tag |-> [name |-> tl.tag.name],
     data |-> [j \in 1..Len(tl.data) |-> DataPointOf(tl.data[j])]]

\* self.tags.iter().map(..).collect()
TimeSeries(tags) == [i \in 1..Len(tags) |-> DataSeriesOf(tags[i])]


-----------------------------------------------------------------------------
(* Point lookup, timeseries.rs:59-81 *)

\* self.data[index].timestamp.cmp(&timestamp)
Cmp(a, b) == IF a < b THEN "Less" ELSE IF a > b THEN "Greater" ELSE "Equal"

RECURSIVE SearchSkipsIndex(_, _, _, _)
\* Search with a seeded fault: Ordering::Less moves min past index
\* (min = index + 1)
SearchSkipsIndex(data, t, min, max) ==
    IF max - min > 1
    THEN LET index == (min + max) \div 2
             c == Cmp(data[index + 1].timestamp, t)
         IN  CASE c = "Less" -> SearchSkipsIndex(data, t, index + 1, max)
               [] c = "Greater" -> SearchSkipsIndex(data, t, min, index)
               [] c = "Equal" -> SearchSkipsIndex(data, t, index, index)
    ELSE min

RECURSIVE Search(_, _, _, _)
\* the while loop of get_value_at (lines 66-78): returns min at loop exit;
\* index = (min + max) / 2 is recomputed from min and max on every pass
Search(data, t, min, max) ==
    IF max - min > 1
    THEN LET index == (min + max) \div 2
             c == Cmp(data[index + 1].timestamp, t)
         IN  CASE c = "Less" -> Search(data, t, index, max)
               [] c = "Greater" -> Search(data, t, min, index)
               [] c = "Equal" -> Search(data, t, index, index)
    ELSE min

\* get_value_at with a seeded fault: a query before the first sample gives
\* None instead of clamping low
get_value_at_no_clamp(data, t) ==
    IF Len(data) = 0 THEN None
    ELSE IF t < data[1].timestamp THEN None
    ELSE data[Search(data, t, 0, Len(data) - 1) + 1].value

\* DataSeries::get_value_at(&self, timestamp), data = self.data
get_value_at(data, t) ==
    IF Len(data) = 0 THEN None
    ELSE data[Search(data, t, 0, Len(data) - 1) + 1].value

-----------------------------------------------------------------------------
(* Inputs *)

\* value of a variable the specification at hand does not use
Unused == <<>>

\* a timestamp at which a tag has no sample
NoSample == <<>>

\* a quality code of the records whose quality no claim reads
SomeQuality == QualityMask

\* the records of f (timestamp -> NoSample or Option<TagValue>) at lo..hi,
\* ascending by timestamp
RECURSIVE RecordsOf(_, _, _)
RecordsOf(f, lo, hi) ==
    IF lo > hi THEN <<>>
    ELSE (IF f[lo] = NoSample THEN <<>>
          ELSE <<TagData(lo, f[lo], SomeQuality)>>) \o RecordsOf(f, lo + 1, hi)

\* the requested tags (a numeric tag and a discrete-state tag of main's list)
TagNames == <<"131-FQ-001.PV", "FL001.State">>

\* the tag main queries with get_value_at (time_series[4])
LookupTag == "FL001.BatchId"

NumericValues == {None, Some(Integer(1)), Some(Integer(3))}
StateValues == {None, Some(Text("on"))}
AllValues == {None, Some(Integer(1)), Some(Float(3)), Some(Text("on"))}

\* raw quality codes of the construction input: a negative code, a code whose
\* two-bit field is 0 and one whose field is 3
BuildQualities == {0 - 1, 0, QualityMask}

\* ascending by timestamp, timestamps unique
IsSortedUnique(data) ==
    \A i \in 1..Len(data) : \A j \in 1..Len(data) :
        i < j => data[i].timestamp < data[j].timestamp

\* ascending by timestamp
IsSortedAscending(data) ==
    \A i \in 1..Len(data) : \A j \in 1..Len(data) :
        i < j => data[i].timestamp <= data[j].timestamp

-----------------------------------------------------------------------------
(* Specification of the quality classification: every i16 code *)

InitClassify ==
    /\ pc = "classify"
    /\ code \in I16
    /\ quality = Unused
    /\ response = Unused /\ time_series = Unused
    /\ test_timestamp = Unused /\ test_value = Unused
    /\ start_time = Unused /\ dp = Unused /\ pos = Unused
    /\ timestamp = Unused /\ last_values = Unused /\ order = Unused
    /\ data_table = Unused

\* main.rs:153-156 applied to one raw code
Classify ==
    /\ pc = "classify"
    /\ quality' = Quality(code)
    /\ pc' = "classified"
    /\ UNCHANGED <<code, response, time_series, test_timestamp, test_value,
                   start_time, dp, pos, timestamp, last_values, order, data_table>>

NextClassify == Classify

SpecClassify == InitClassify /\ [][NextClassify]_vars

-----------------------------------------------------------------------------
(* Specification of series construction: raw records in arrival order *)

RawRecords ==
    {TagData(t, v, q) : t \in 0..MaxTime, v \in AllValues, q \in BuildQualities}

RawData == UNION {[1..n -> RawRecords] : n \in 0..BuildMaxLen}

InitBuild ==
    /\ pc = "response"
    /\ \E n \in {TagNames[i] : i \in 1..Len(TagNames)} : \E d \in RawData :
          response = <<TagItem(n, d)>>
    /\ time_series = Unused
    /\ code = Unused /\ quality = Unused
    /\ test_timestamp = Unused /\ test_value = Unused
    /\ start_time = Unused /\ dp = Unused /\ pos = Unused
    /\ timestamp = Unused /\ last_values = Unused /\ order = Unused
    /\ data_table = Unused

\* main.rs:60  let time_series = response.time_series();
Build ==
    /\ pc = "response"
    /\ time_series' = TimeSeries(response)
    /\ pc' = "built"
    /\ UNCHANGED <<code, quality, response, test_timestamp, test_value,
                   start_time, dp, pos, timestamp, last_values, order, data_table>>

NextBuild == Build

SpecBuild == InitBuild /\ [][NextBuild]_vars

-----------------------------------------------------------------------------
(* Specification of the point lookup: a sorted series, any query time *)

\* the series given to the lookup: at most one record per timestamp of
\* 0..LookupMaxTime, ascending, the order get_value_at relies on
LookupInputs == [0..LookupMaxTime -> AllValues \cup {NoSample}]

QueryTimes == (0 - 1)..(LookupMaxTime + 1)

InitLookup ==
    /\ pc = "lookup"
    /\ \E f \in LookupInputs :
          response = <<TagItem(LookupTag, RecordsOf(f, 0, LookupMaxTime))>>
    /\ time_series = TimeSeries(response)
    /\ test_timestamp = Unused /\ test_value = Unused
    /\ code = Unused /\ quality = Unused
    /\ start_time = Unused /\ dp = Unused /\ pos = Unused
    /\ timestamp = Unused /\ last_values = Unused /\ order = Unused
    /\ data_table = Unused

\* main.rs:105  let test_value = time_series[4].get_value_at(test_timestamp);
Lookup ==
    /\ pc = "lookup"
    /\ \E t \in QueryTimes :
          /\ test_timestamp' = t
          /\ test_value' = get_value_at(time_series[1].data, t)
    /\ pc' = "queried"
    /\ UNCHANGED <<code, quality, response, time_series,
                   start_time, dp, pos, timestamp, last_values, order, data_table>>

NextLookup == Lookup

SpecLookup == InitLookup /\ [][NextLookup]_vars

-----------------------------------------------------------------------------
(* The alignment sweep, main.rs:63-93 *)

\* dp.extend(tag.data.iter().map(|dp| (&tag.tag, dp))) for every series in order
RECURSIVE FlattenFrom(_, _)
FlattenFrom(series, i) ==
    IF i > Len(series) THEN <<>>
    ELSE [j \in 1..Len(series[i].data) |-> <<series[i].tag, series[i].data[j]>>]
         \o FlattenFrom(series, i + 1)

\* x placed after every pair of the sorted prefix whose key is <= x's key
InsertByKey(sorted, x) ==
    LET k == Cardinality({i \in 1..Len(sorted) :
                             sorted[i][2].timestamp <= x[2].timestamp})
    IN  SubSeq(sorted, 1, k) \o <<x>> \o SubSeq(sorted, k + 1, Len(sorted))

\* dp.sort_by_key(|&(_, d)| d.timestamp): a stable sort by timestamp
RECURSIVE sort_by_key(_, _)
sort_by_key(s, n) ==
    IF n = 0 THEN <<>> ELSE InsertByKey(sort_by_key(s, n - 1), s[n])

\* the keys of last_values: time_series.iter().map(|t| t.tag.name.clone())
Keys(series) == {series[i].tag.name : i \in 1..Len(series)}

\* the orders in which a HashMap over the keys can iterate
IterationOrders(keys) ==
    {o \in [1..Cardinality(keys) -> keys] :
        \A i \in 1..Cardinality(keys) : \A j \in 1..Cardinality(keys) :
            o[i] = o[j] => i = j}

\* last_values.values().cloned().collect()
Snapshot(lv, ord) == [i \in 1..Len(ord) |-> lv[ord[i]]]

\* the responses given to the sweep: two tags, each with at most one record per
\* timestamp of 0..MaxTime, in ascending timestamp order (the sweep sorts the
\* flattened pairs itself, so the order inside a series does not reach it)
AlignInputs ==
    {<<TagItem(TagNames[1], RecordsOf(f, 0, MaxTime)),
       TagItem(TagNames[2], RecordsOf(g, 0, MaxTime))>> :
        f \in [0..MaxTime -> NumericValues \cup {NoSample}],
        g \in [0..MaxTime -> StateValues \cup {NoSample}]}

InitAlign ==
    /\ pc = "main"
    /\ response \in AlignInputs
    /\ time_series = TimeSeries(response)
    /\ start_time \in 0..MaxTime
    /\ dp = Unused /\ pos = Unused /\ timestamp = Unused
    /\ last_values = Unused /\ order = Unused /\ data_table = Unused
    /\ code = Unused /\ quality = Unused
    /\ test_timestamp = Unused /\ test_value = Unused

\* main.rs:63-78: flatten, sort, and set up timestamp, last_values, data_table
Flatten ==
    /\ pc = "main"
    /\ dp' = LET flat == FlattenFrom(time_series, 1) IN sort_by_key(flat, Len(flat))
    /\ timestamp' = start_time
    /\ last_values' = [n \in Keys(time_series) |-> None]
    /\ order' \in IterationOrders(Keys(time_series))
    /\ data_table' = <<>>
    /\ pos' = 1
    /\ pc' = "sweep"
    /\ UNCHANGED <<code, quality, response, time_series, test_timestamp,
                   test_value, start_time>>

\* SweepStep with a seeded fault: the row is pushed when
\* dp.timestamp >= timestamp
SweepStepPushOnEqual ==
    /\ pc = "sweep"
    /\ pos <= Len(dp)
    /\ LET tag == dp[pos][1]
           point == dp[pos][2]
       IN  /\ data_table' =
                 IF point.timestamp >= timestamp
                 THEN Append(data_table, <<timestamp, Snapshot(last_values, order)>>)
                 ELSE data_table
           /\ timestamp' = point.timestamp
           /\ last_values' = [last_values EXCEPT ![tag.name] = point.value]
    /\ pos' = pos + 1
    /\ UNCHANGED <<pc, code, quality, response, time_series, test_timestamp,
                   test_value, start_time, dp, order>>

\* SweepStep with a seeded fault: last_values is updated before the row is
\* snapshotted
SweepStepInsertFirst ==
    /\ pc = "sweep"
    /\ pos <= Len(dp)
    /\ LET tag == dp[pos][1]
           point == dp[pos][2]
       IN  /\ last_values' = [last_values EXCEPT ![tag.name] = point.value]
           /\ data_table' =
                 IF point.timestamp > timestamp
                 THEN Append(data_table, <<timestamp, Snapshot(last_values', order)>>)
                 ELSE data_table
           /\ timestamp' = point.timestamp
    /\ pos' = pos + 1
    /\ UNCHANGED <<pc, code, quality, response, time_series, test_timestamp,
                   test_value, start_time, dp, order>>

\* main.rs:80-91: one pass of dp.iter().for_each(|(tag, dp)| ..)
SweepStep ==
    /\ pc = "sweep"
    /\ pos <= Len(dp)
    /\ LET tag == dp[pos][1]
           point == dp[pos][2]
       IN  /\ data_table' =
                 IF point.timestamp > timestamp
                 THEN Append(data_table, <<timestamp, Snapshot(last_values, order)>>)
                 ELSE data_table
           /\ timestamp' = point.timestamp
           /\ last_values' = [last_values EXCEPT ![tag.name] = point.value]
    /\ pos' = pos + 1
    /\ UNCHANGED <<pc, code, quality, response, time_series, test_timestamp,
                   test_value, start_time, dp, order>>

\* PrintTable with a seeded fault: a final row for the pending timestamp is
\* pushed after the sweep
PrintTablePushFinal ==
    /\ pc = "sweep"
    /\ pos > Len(dp)
    /\ data_table' = Append(data_table, <<timestamp, Snapshot(last_values, order)>>)
    /\ pc' = "done"
    /\ UNCHANGED <<code, quality, response, time_series, test_timestamp,
                   test_value, start_time, dp, pos, timestamp, last_values, order>>

\* main.rs:93: the sweep is over; data_table is printed as it stands
PrintTable ==
    /\ pc = "sweep"
    /\ pos > Len(dp)
    /\ pc' = "done"
    /\ UNCHANGED <<code, quality, response, time_series, test_timestamp,
                   test_value, start_time, dp, pos, timestamp, last_values,
                   order, data_table>>

NextAlign == Flatten \/ SweepStep \/ PrintTable

SpecAlign == InitAlign /\ [][NextAlign]_vars

-----------------------------------------------------------------------------
(* Claims about the quality classification (SpecClassify) *)

\* the two-bit field selected by the mask 0xC0: 0, 1, 2 or 3
QualityField(n) == BitAnd16(n, QualityMask) \div 64

\* C7: for every 16-bit code the classification follows the two-bit field
\* selected by 0xC0: field 0 gives Bad, field 1 or 2 gives Unknown, field 3
\* gives Good, each carrying the raw code.
C7_QualityFollowsBitField ==
    pc = "classified" =>
        quality = CASE QualityField(code) = 0 -> Bad(code)
                    [] QualityField(code) \in {1, 2} -> Unknown(code)
                    [] QualityField(code) = 3 -> Good(code)

-----------------------------------------------------------------------------
(* Claims about series construction (SpecBuild) *)

\* C8: every series built by time_series has its samples sorted ascending by
\* timestamp, whatever the arrival order of the raw records.
C8_ConstructedSeriesSorted ==
    pc = "built" =>
        \A i \in 1..Len(time_series) : IsSortedAscending(time_series[i].data)

-----------------------------------------------------------------------------
(* Claims about the point lookup (SpecLookup) *)

\* the samples of the series that was queried
Queried == time_series[1].data

\* C1: on a non-empty sorted series with unique timestamps, a query at or
\* after the last sample's timestamp returns the last sample's value.
C1_AtOrAfterLastReturnsLast ==
    (pc = "queried" /\ Len(Queried) >= 1 /\ IsSortedUnique(Queried)
        /\ test_timestamp >= Queried[Len(Queried)].timestamp)
    => test_value = Queried[Len(Queried)].value

\* C2: on a non-empty sorted series with unique timestamps, a query exactly at
\* the timestamp of sample i (first and last included) returns sample i's value.
C2_ExactTimestampReturnsThatSample ==
    (pc = "queried" /\ IsSortedUnique(Queried))
    => \A i \in 1..Len(Queried) :
          test_timestamp = Queried[i].timestamp => test_value = Queried[i].value

\* C3: on a sorted series with unique timestamps and at least two samples, a
\* query strictly between the timestamps of sample i and sample i+1 returns
\* sample i's value (the value holds until the next sample).
C3_BetweenReturnsEarlier ==
    (pc = "queried" /\ IsSortedUnique(Queried))
    => \A i \in 1..(Len(Queried) - 1) :
          (Queried[i].timestamp < test_timestamp
              /\ test_timestamp < Queried[i + 1].timestamp)
          => test_value = Queried[i].value

\* C3's case: a query strictly inside a gap that is not the first one, whose
\* answer differs from the first sample's value
C3_Witness ==
    /\ pc = "queried"
    /\ \E i \in 2..(Len(Queried) - 1) :
          /\ Queried[i].timestamp < test_timestamp
          /\ test_timestamp < Queried[i + 1].timestamp
          /\ test_value = Queried[i].value
          /\ test_value # None
          /\ test_value # Queried[1].value
          /\ test_value # Queried[i + 1].value

\* C4: clamp-low: a query before the first sample of a non-empty sorted series
\* returns the first sample's value; an empty series gives None; and None is
\* returned only for an empty series or out of a sample whose value is None.
C4_ClampLow ==
    (pc = "queried" /\ IsSortedUnique(Queried))
    => /\ Len(Queried) = 0 => test_value = None
       /\ (Len(Queried) >= 1 /\ test_timestamp < Queried[1].timestamp)
             => test_value = Queried[1].value
       /\ test_value = None
             => \/ Len(Queried) = 0
                \/ \E i \in 1..Len(Queried) : Queried[i].value = None

\* C4's case: a query before the first of several samples, answered with the
\* first sample's value, which is a value and differs from the next one
C4_Witness ==
    /\ pc = "queried"
    /\ Len(Queried) >= 2
    /\ test_timestamp < Queried[1].timestamp
    /\ test_value = Queried[1].value
    /\ test_value # None
    /\ test_value # Queried[2].value

-----------------------------------------------------------------------------
(* Claims about the alignment sweep (SpecAlign) *)

\* the samples of the tag named n
SamplesOf(n) ==
    time_series[CHOOSE i \in 1..Len(time_series) : time_series[i].tag.name = n].data

\* the entry of tag n in a row, at the place the map's iteration gives it
EntryOf(row, n) == row[2][CHOOSE p \in 1..Len(order) : order[p] = n]

\* the indices of n's samples with a timestamp <= t; the sweep takes the pairs
\* in ascending timestamp order and pushes a row stamped t right before the
\* first pair later than t, so these are n's samples processed before that row
SeenBy(n, t) == {i \in 1..Len(SamplesOf(n)) : SamplesOf(n)[i].timestamp <= t}

\* the value of n's latest sample with a timestamp <= t, None without one
FillAt(n, t) ==
    IF SeenBy(n, t) = {} THEN None
    ELSE SamplesOf(n)[CHOOSE i \in SeenBy(n, t) : \A j \in SeenBy(n, t) : j <= i].value

\* the greatest sample timestamp of the input (dp is sorted)
GreatestTimestamp == dp[Len(dp)][2].timestamp

Swept == pc \in {"sweep", "done"}

\* s without the None entries
RECURSIVE NonAbsent(_)
NonAbsent(s) ==
    IF s = <<>> THEN <<>>
    ELSE (IF Head(s) = None THEN <<>> ELSE <<Head(s)>>) \o NonAbsent(Tail(s))

\* s with every run of equal consecutive entries reduced to one entry
RECURSIVE Changes(_)
Changes(s) ==
    IF Len(s) <= 1 THEN s
    ELSE (IF s[1] = s[2] THEN <<>> ELSE <<s[1]>>) \o Changes(Tail(s))

\* C5: for every tag position, the non-absent values the position shows across
\* the emitted rows, in row order (a value carried over several rows counted
\* once), are the tag's own sample values in timestamp order: no change is
\* reordered or dropped.
C5_RowsShowEveryChange ==
    pc = "done" =>
        \A i \in 1..Len(time_series) :
            Changes(NonAbsent([k \in 1..Len(data_table) |-> data_table[k][2][i]]))
            = Changes(NonAbsent([j \in 1..Len(time_series[i].data) |->
                                    time_series[i].data[j].value]))

\* C6 as claimed: in every emitted row a tag's entry is None only if none of
\* the tag's samples was processed before the row was emitted.
C6_AbsentOnlyBeforeFirstSample ==
    Swept =>
        \A k \in 1..Len(data_table) : \A n \in Keys(time_series) :
            EntryOf(data_table[k], n) = None => SeenBy(n, data_table[k][1]) = {}

\* C6 as amended: in every emitted row a tag's entry is None only if none of
\* the tag's samples was processed before the row was emitted, or the latest
\* of them has the value None.
C6_AbsentOnlyWithoutValue ==
    Swept =>
        \A k \in 1..Len(data_table) : \A n \in Keys(time_series) :
            EntryOf(data_table[k], n) = None
            => \/ SeenBy(n, data_table[k][1]) = {}
               \/ \E i \in SeenBy(n, data_table[k][1]) :
                     /\ \A j \in SeenBy(n, data_table[k][1]) : j <= i
                     /\ SamplesOf(n)[i].value = None

\* C6's case: a row in which a tag is None after a sample of it with a value and
\* then one without were processed, and a row in which another tag is None
\* because no sample of it was processed yet
C6_Witness ==
    /\ pc = "done"
    /\ \E k \in 1..Len(data_table) : \E n \in Keys(time_series) :
          /\ EntryOf(data_table[k], n) = None
          /\ Cardinality(SeenBy(n, data_table[k][1])) >= 2
          /\ SamplesOf(n)[1].value # None
    /\ \E k \in 1..Len(data_table) : \E n \in Keys(time_series) :
          /\ EntryOf(data_table[k], n) = None
          /\ SeenBy(n, data_table[k][1]) = {}
          /\ Len(SamplesOf(n)) >= 1

\* what one pass of the sweep does to data_table and last_values
PassEmitsAndApplies ==
    /\ data_table' =
          IF dp[pos][2].timestamp > timestamp
          THEN Append(data_table, <<timestamp, Snapshot(last_values, order)>>)
          ELSE data_table
    /\ last_values' = [last_values EXCEPT ![dp[pos][1].name] = dp[pos][2].value]

\* C9 as claimed: the pending timestamp starts at start_time; a pair later
\* than it pushes one row (pending timestamp, snapshot before the pair is
\* applied) and becomes the pending timestamp; any other pair pushes no row
\* and leaves the pending timestamp unchanged; the pair's value is then
\* applied to its tag.
C9_PendingTimestampKeptOnEarlierPair ==
    [][(pc = "main" /\ pc' = "sweep" => timestamp' = start_time)
       /\ (pc = "sweep" /\ pos' = pos + 1 =>
              /\ PassEmitsAndApplies
              /\ timestamp' = IF dp[pos][2].timestamp > timestamp
                              THEN dp[pos][2].timestamp
                              ELSE timestamp)]_vars

\* C9 as amended: as claimed, except that every pair's timestamp becomes the
\* pending timestamp, row or no row, so a sample earlier than start_time moves
\* the pending timestamp back to its own timestamp.
C9_PendingTimestampFollowsEveryPair ==
    [][(pc = "main" /\ pc' = "sweep" => timestamp' = start_time)
       /\ (pc = "sweep" /\ pos' = pos + 1 =>
              /\ PassEmitsAndApplies
              /\ timestamp' = dp[pos][2].timestamp)]_vars

\* C9's case: a sample earlier than start_time was processed and moved the
\* pending timestamp back, and a later pair pushed a row stamped before
\* start_time
C9_Witness ==
    /\ pc = "sweep"
    /\ pos > 2
    /\ dp[1][2].timestamp < start_time
    /\ Len(data_table) >= 1
    /\ data_table[1][1] < start_time
    /\ timestamp > data_table[1][1]

\* Scenario A: Tag1 0 -> 1, 2 -> 3 and Tag2 1 -> "on"
ScenarioA ==
    <<TagItem(TagNames[1], <<TagData(0, Some(Integer(1)), SomeQuality),
                             TagData(2, Some(Integer(3)), SomeQuality)>>),
      TagItem(TagNames[2], <<TagData(1, Some(Text("on")), SomeQuality)>>)>>

\* C10: the sweep never emits the final accumulated state: without samples
\* there is no row; every row is stamped strictly before the greatest sample timestamp and shows, for every
\* tag, the value of the tag's latest sample at or before the row's timestamp
\* (so nothing written by a sample at the greatest timestamp); after the sweep
\* those writes are in last_values only; Scenario A with start time 0 gives
\* exactly the rows stamped 0 and 1.
C10_FinalStateNeverEmitted ==
    Swept =>
        /\ Len(dp) = 0 => data_table = <<>>
        /\ Len(dp) >= 1 => \A k \in 1..Len(data_table) :
              /\ data_table[k][1] < GreatestTimestamp
              /\ \A n \in Keys(time_series) :
                    EntryOf(data_table[k], n) = FillAt(n, data_table[k][1])
        /\ (pc = "done" /\ Len(dp) >= 1) =>
              \A n \in Keys(time_series) :
                  last_values[n] = FillAt(n, GreatestTimestamp)
        /\ (pc = "done" /\ response = ScenarioA /\ start_time = 0) =>
              [k \in 1..Len(data_table) |-> data_table[k][1]] = <<0, 1>>

\* C10's case: the sweep is over, the samples at the greatest timestamp changed
\* a tag's value, rows were pushed, and the last row still shows the old value
C10_Witness ==
    /\ pc = "done"
    /\ Len(data_table) >= 2
    /\ \E n \in Keys(time_series) :
          /\ SamplesOf(n) # <<>>
          /\ SamplesOf(n)[Len(SamplesOf(n))].timestamp = GreatestTimestamp
          /\ last_values[n] # None
          /\ EntryOf(data_table[Len(data_table)], n) # None
          /\ EntryOf(data_table[Len(data_table)], n) # last_values[n]

=============================================================================
